---- MODULE Spec2Model ----
(***************************************************************************)
(* Delivery tracking, fan-out, retry scheduling and link reconnection of   *)
(* the weather station (src/ws4m.py).                                      *)
(*                                                                         *)
(* Conventions.  Python None is written 0 for node numbers and message     *)
(* ids (both are positive when present, and the code tests them only by    *)
(* truthiness or equality), and <<>> for an optional value (<<v>> when     *)
(* present).  Time is counted in whole seconds.                            *)
(***************************************************************************)
EXTENDS Integers, Sequences, FiniteSets, TLC

\* ------------------------------------------------------------------------
\* Configuration (config.ini as read by load_config) and model bounds
\* ------------------------------------------------------------------------

\* [nodes] section, in file order (dict order is insertion order)
NodeOrder == <<"A", "B", "C">>
NODES == [A |-> 1, B |-> 2, C |-> 3]
NodeNames == {NodeOrder[i] : i \in 1..Len(NodeOrder)}

\* selected_node of [settings] and the address load_config derives from it
SELECTED_NODE_NAME == "C"
TARGET_NODE_INT == NODES[SELECTED_NODE_NAME]

\* node numbers a connected device may report: a configured peer, or a
\* device that is not in the configuration
StrangerNum == 9
DeviceNums == {NODES["A"], StrangerNum}

\* ack_retry_timeout, ack_wait_time, usb_reconnect_interval of [settings]
ACK_RETRY_TIMEOUT == 1
ACK_WAIT_TIME == 1
USB_RECONNECT_INTERVAL == 2

\* the literal waits of the sensing loop, in seconds
AckWindow == 5
LoopSleep == 1
MinuteLen == 60

\* the wall clock when run_weather_station starts (6 s before a whole
\* minute) and the span of time explored after it
StartTime == 2 * MinuteLen - 6
Horizon == 13
MaxTime == StartTime + Horizon

\* bounds of the exploration
MaxTimers == 1
PlugWindow == 1
MissWindow == 1
MaxResponses == 2
MaxSamples == 5

\* the floating-point numbers of the statistics are binary numbers of
\* Precision significant bits; the recent window holds RecentMax samples
\* (100 in the source)
Precision == 5
RecentMax == 3
\* update_snr_stats saves the table every SavePeriod values of a node (10 in
\* the program)
SavePeriod == 2

\* snr values handed to update_snr_stats when it is driven directly
Samples == {22, 23}
\* the timeout of the expiry sweep (cleanup_old's default, scaled to the
\* model's seconds)
CleanupTimeout == 2
MaxAge == 1
MaxApiTime == 2

\* message ids the transport hands out; the ids and peers the tracker's
\* methods are called with when they are driven directly, and the request
\* ids of the responses delivered then (3 is never registered)
MsgIds == {1, 2, 3, 4}
ApiIds == {1, 2}
ApiEventIds == {1, 3}
ApiPeer == [i \in ApiIds |-> IF i = 1 THEN "B" ELSE "C"]
ApiSnr == [i \in ApiIds |-> IF i = 1 THEN <<>> ELSE <<21>>]

\* signal values observed for a peer (quarter-dB steps), None is <<>>
SnrValues == {<<>>, <<21>>}

\* the transport's events: the id fields of a routing packet, its sender
\* and its error reason
ErrorReasons == {"NONE", "NO_ROUTE"}
FromNodes == {0, 1, 2}

\* ------------------------------------------------------------------------
\* State
\* ------------------------------------------------------------------------
VARIABLES
    now,                    \* time.time(), whole seconds
    pending,                \* AckTracker.pending: message id -> entry
    cb,                     \* the transport thread inside on_ack_nak
    cbOutcome,              \* how the last on_ack_nak call ended
    timers,                 \* threading.Timer objects started and not yet run
    conf,                   \* the timer thread inside send_ack_confirmation, and
                            \* how the latest call of it ended
    WANT_ACK,               \* the want_ack setting
    meshtastic_interface,   \* "open" or "None"
    local_num,              \* meshtastic_interface.localNode.nodeNum (0: None)
    my_node_id,             \* node number of the connected device (0: None)
    meshtastic_connected,
    linkUp,                 \* a radio is attached and answers on USB
    deviceNum,              \* node number of the attached radio
    sent,                   \* the packets of the latest sending operation
    history,                \* per id: "unregistered", "registered", or the
                            \* method that removed it ("cleanup_old", "clear")
    remote,                 \* ids with a response from another node's address
    pc,                     \* where run_weather_station stands
    wakeAt,                 \* end of the time.sleep the loop is in
    reading,                \* read_sensor() returned values in this pass
    current_time,           \* current_time of this pass of the loop
    message,                \* format_message(...) of this pass (<<>>: none)
    snr,                    \* snr looked up in this pass
    pending_retry_time,     \* 0: None
    pending_message,        \* <<>>: None
    pending_recipients,
    first_message_sent,
    last_minute_sent,
    last_reconnect_attempt,
    LAST_ACK_STATUS,        \* "": None
    current_msg_ids,        \* result['message_ids'] of the send in progress
    result,                 \* what send_meshtastic_message returned
    retry_message,          \* retry_message of the retry in progress
    nextId,                 \* the id the transport gives the next packet
    batches,                \* sends so far of the message last sent
    lastTargets,            \* target_nodes of the latest send, the identity, and
                            \* how many of its sendData calls raised
    lastClass,              \* the loop's last classification of a batch
    responses,              \* routing packets the radio has reported so far
    reconnects,             \* reconnection attempts of the loop: how many, and
                            \* the times of the latest and the one before
    SNR_STATS,              \* node name -> min, max, avg, count, recent
    samples,                \* node name -> every snr recorded for it, in order
    stats_file,             \* what SNR_STATS_FILE holds
    saves                   \* save_snr_stats calls so far: how many, how many
                            \* failed, and how the latest went

trackerVars == <<pending, cb, cbOutcome, timers, conf, history, remote>>
linkVars == <<meshtastic_interface, local_num, my_node_id, meshtastic_connected,
              linkUp, deviceNum>>
retryVars == <<pending_retry_time, pending_message, pending_recipients>>
loopVars == <<pc, wakeAt, reading, current_time, message, snr, retryVars,
              first_message_sent, last_minute_sent, last_reconnect_attempt,
              LAST_ACK_STATUS, current_msg_ids, result, retry_message, nextId,
              batches, lastTargets, lastClass, responses, reconnects>>
statsVars == <<SNR_STATS, samples, stats_file, saves>>
vars == <<now, trackerVars, WANT_ACK, linkVars, sent, loopVars, statsVars>>

\* ------------------------------------------------------------------------
\* AckTracker
\* ------------------------------------------------------------------------

\* register_message: the entry stored for a sent message
NewEntry(node_name, s, t) ==
    [node_name |-> node_name, ack_received |-> FALSE, nak_received |-> FALSE,
     impl_ack_received |-> FALSE, timestamp |-> t, snr |-> s]

\* a sweep that selects the entries but deletes none
RemoveNone(p, S) == p

\* a store that keeps the entry an id already has
StoreIfAbsent(p, id, e) ==
    [i \in DOMAIN p \cup {id} |-> IF i = id /\ id \notin DOMAIN p THEN e ELSE p[i]]

\* self.pending[message_id] = {...}
Store(p, id, e) == [i \in DOMAIN p \cup {id} |-> IF i = id THEN e ELSE p[i]]

\* del self.pending[msg_id] for every id of S
Remove(p, S) == [i \in DOMAIN p \ S |-> p[i]]

\* register_message(message_id, node_name, snr), under the lock
RegisterMessage(p, id, node_name, s, t) == Store(p, id, NewEntry(node_name, s, t))

\* get_status(message_id), under the lock
GetStatus(p, message_id) ==
    IF message_id \notin DOMAIN p THEN "unknown"
    ELSE IF p[message_id].ack_received THEN "ack"
    ELSE IF p[message_id].nak_received THEN "nak"
    ELSE IF p[message_id].impl_ack_received THEN "impl_ack"
    ELSE "pending"

\* on_ack_nak, dictionary packet: requestId of the decoded part, else the
\* packet's own id
RequestIdOf(packet) == IF packet.requestId # 0 THEN packet.requestId ELSE packet.id

\* the sender's address tested before the error reason
ClassifySenderFirst(error_reason, from_node, localNum) ==
    IF from_node = localNum THEN "impl_ack"
    ELSE IF error_reason # "NONE" THEN "nak"
    ELSE "ack"

\* a response without error reason counted as delivery whoever sent it
ClassifyIgnoresSender(error_reason, from_node, localNum) ==
    IF error_reason # "NONE" THEN "nak" ELSE "ack"

\* on_ack_nak: which flag a response sets
Classify(error_reason, from_node, localNum) ==
    IF error_reason # "NONE" THEN "nak"
    ELSE IF from_node = localNum THEN "impl_ack"
    ELSE "ack"

\* on_ack_nak: the flag is set on the entry, nothing is reset
Mark(e, kind) ==
    CASE kind = "nak" -> [e EXCEPT !.nak_received = TRUE]
      [] kind = "impl_ack" -> [e EXCEPT !.impl_ack_received = TRUE]
      [] kind = "ack" -> [e EXCEPT !.ack_received = TRUE]

\* on_ack_nak: local_num as the callback reads it
LocalNumSeen == IF meshtastic_interface = "open" THEN local_num ELSE 0

\* the age test written with >= instead of >
ExpiredIdsAtLeast(p, t, timeout) == {i \in DOMAIN p : t - p[i].timestamp >= timeout}

\* the entries cleanup_old(timeout) selects
ExpiredIds(p, t, timeout) == {i \in DOMAIN p : t - p[i].timestamp > timeout}

\* a handler without the except clause
KeyErrorPropagates == "raised"

\* what the handler's except clause does with a KeyError
KeyErrorOutcome == "caught"

\* the callback thread outside on_ack_nak
CbIdle == [pc |-> "idle", request_id |-> 0, from_node |-> 0, error_reason |-> "NONE"]

\* packets the transport may hand to on_ack_nak for request ids up to n
Packets(ids) ==
    [requestId : ids, id : {0}, from : FromNodes, errorReason : ErrorReasons]
    \cup [requestId : {0}, id : ids \cup {0}, from : FromNodes,
          errorReason : ErrorReasons]

\* on_ack_nak up to the membership test, which runs before the lock is taken
OnAckNakCheck(packet) ==
    /\ cb.pc = "idle"
    /\ LET request_id == RequestIdOf(packet) IN
         IF request_id = 0 \/ request_id \notin DOMAIN pending
         THEN /\ cb' = cb
              /\ cbOutcome' = [how |-> "ignored", id |-> request_id]
         ELSE /\ cb' = [pc |-> "locked", request_id |-> request_id,
                        from_node |-> packet.from, error_reason |-> packet.errorReason]
              /\ cbOutcome' = [how |-> "running", id |-> request_id]
    /\ UNCHANGED <<now, pending, timers, conf, history, remote, WANT_ACK, linkVars, sent,
                   pc, wakeAt, reading, current_time, message, snr, retryVars,
                   first_message_sent, last_minute_sent, last_reconnect_attempt,
                   LAST_ACK_STATUS, current_msg_ids, result, retry_message, nextId,
                   batches, lastTargets, lastClass, reconnects, statsVars>>

\* a callback that sleeps through the confirmation's wait before it returns
CbSleeping == [pc |-> "sleeping", request_id |-> 0, from_node |-> 0, error_reason |-> "NONE"]

\* the callback thread once on_ack_nak has left "with self.lock" and
\* returned; Timer(...).start() does not wait
CbReturned == CbIdle

\* on_ack_nak from "with self.lock" to its return
OnAckNakUpdate ==
    /\ cb.pc = "locked"
    /\ IF cb.request_id \notin DOMAIN pending
       THEN \* self.pending[request_id] raises KeyError
            /\ cbOutcome' = [how |-> KeyErrorOutcome, id |-> cb.request_id]
            /\ UNCHANGED <<pending, timers, remote>>
       ELSE LET msg_info == pending[cb.request_id]
                kind == Classify(cb.error_reason, cb.from_node, LocalNumSeen)
            IN /\ pending' = [pending EXCEPT ![cb.request_id] = Mark(msg_info, kind)]
               /\ IF kind = "ack" /\ WANT_ACK
                  THEN /\ Len(timers) < MaxTimers
                       /\ timers' = Append(timers,
                              [started |-> now, interval |-> ACK_WAIT_TIME,
                               node_name |-> msg_info.node_name, snr |-> msg_info.snr,
                               id |-> cb.request_id])
                  ELSE timers' = timers
               /\ remote' = IF cb.from_node # local_num
                             THEN remote \cup {cb.request_id} ELSE remote
               /\ cbOutcome' = [how |-> "updated", id |-> cb.request_id]
    /\ cb' = CbReturned
    /\ UNCHANGED <<now, conf, history, WANT_ACK, linkVars, sent, loopVars, statsVars>>

\* a timer that runs its function as soon as it is started
TimerDueAtStart(t) == t.started

\* threading.Timer(interval, function): the earliest time the function runs
TimerDue(t) == t.started + t.interval

\* no timer thread is inside send_ack_confirmation
ConfIdle == [pc |-> "idle", timer |-> <<>>, outcome |-> "none"]

\* a confirmation sent like a data message of the loop
ConfirmationLikeData == WANT_ACK

\* send_ack_confirmation: the wantAck argument of its sendData call
ConfirmationWantAck == FALSE

\* send_ack_confirmation: the packet its sendData call sends for timer t
ConfirmationPacket(t) ==
    [kind |-> "conf", to |-> t.node_name, wantAck |-> ConfirmationWantAck, at |-> now,
     id |-> 0, snr |-> t.snr, started |-> t.started, for |-> t.id]

\* send_ack_confirmation(node_name, snr): what it hands to sendData, if anything
ConfirmationSends(t) ==
    IF meshtastic_interface # "open" \/ ~WANT_ACK THEN {}
    ELSE IF t.node_name \notin DOMAIN NODES THEN {}
    ELSE IF ~linkUp THEN {}    \* sendData raises, the handler logs it
    ELSE {ConfirmationPacket(t)}

\* a threading.Timer runs send_ack_confirmation once its interval has passed
FireTimer(k) ==
    /\ k \in 1..Len(timers)
    /\ now >= TimerDue(timers[k])
    /\ sent' = ConfirmationSends(timers[k])
    /\ timers' = [i \in 1..(Len(timers) - 1) |-> IF i < k THEN timers[i] ELSE timers[i + 1]]
    /\ UNCHANGED <<now, pending, cb, cbOutcome, conf, history, remote, WANT_ACK, linkVars,
                   loopVars, statsVars>>

\* a send_ack_confirmation without its try/except: the exception ends the
\* timer thread
ConfirmationErrorRaised == "raised"

\* send_ack_confirmation: how an exception raised inside its try block ends
ConfirmationErrorOutcome == "logged"

\* the timer thread has left send_ack_confirmation
ConfDone(how) == [pc |-> "idle", timer |-> <<>>, outcome |-> how]

\* a due timer starts send_ack_confirmation, which reads meshtastic_interface
\* and WANT_ACK and looks the node up; the timer thread takes no lock
ConfirmationCheck(k) ==
    /\ conf.pc = "idle"
    /\ k \in 1..Len(timers)
    /\ now >= TimerDue(timers[k])
    /\ timers' = [i \in 1..(Len(timers) - 1) |-> IF i < k THEN timers[i] ELSE timers[i + 1]]
    /\ IF meshtastic_interface # "open" \/ ~WANT_ACK
          \/ timers[k].node_name \notin DOMAIN NODES
       THEN /\ conf' = ConfDone("returned")
            /\ sent' = {}
       ELSE /\ conf' = [pc |-> "checked", timer |-> <<timers[k]>>, outcome |-> "running"]
            /\ sent' = sent
    /\ UNCHANGED <<now, pending, cb, cbOutcome, history, remote, WANT_ACK, linkVars,
                   loopVars, statsVars>>

\* send_ack_confirmation from meshtastic_interface.sendData(...) to its
\* return: the global is read again, None.sendData raises AttributeError and
\* a radio that is gone makes sendData raise
ConfirmationSend ==
    /\ conf.pc = "checked"
    /\ IF meshtastic_interface # "open" \/ ~linkUp
       THEN /\ conf' = ConfDone(ConfirmationErrorOutcome)
            /\ sent' = {}
       ELSE /\ conf' = ConfDone("sent")
            /\ sent' = {ConfirmationPacket(conf.timer[1])}
    /\ UNCHANGED <<now, pending, cb, cbOutcome, timers, history, remote, WANT_ACK,
                   linkVars, loopVars, statsVars>>

\* send_meshtastic_message, outer handler: the interface is closed and dropped
DropInterface ==
    /\ meshtastic_interface = "open"
    /\ meshtastic_connected' = FALSE
    /\ meshtastic_interface' = "None"
    /\ UNCHANGED <<now, trackerVars, WANT_ACK, local_num, my_node_id, linkUp, deviceNum,
                   sent, loopVars, statsVars>>

\* cleanup_old(timeout)
CleanupOld(timeout) ==
    /\ pending' = Remove(pending, ExpiredIds(pending, now, timeout))
    /\ history' = [i \in DOMAIN history |->
                      IF i \in ExpiredIds(pending, now, timeout) THEN "cleanup_old"
                      ELSE history[i]]
    /\ UNCHANGED <<now, cb, cbOutcome, timers, conf, remote, WANT_ACK, linkVars, sent,
                   loopVars, statsVars>>

\* clear()
Clear ==
    /\ pending' = Remove(pending, DOMAIN pending)
    /\ history' = [i \in DOMAIN history |->
                      IF i \in DOMAIN pending THEN "clear" ELSE history[i]]
    /\ UNCHANGED <<now, cb, cbOutcome, timers, conf, remote, WANT_ACK, linkVars, sent,
                   loopVars, statsVars>>

\* register_message called with an id of the caller's choosing
ApiRegister(id, node_name, s) ==
    /\ pending' = RegisterMessage(pending, id, node_name, s, now)
    /\ history' = [history EXCEPT ![id] = "registered"]
    /\ remote' = remote \ {id}
    /\ UNCHANGED <<now, cb, cbOutcome, timers, conf, WANT_ACK, linkVars, sent, loopVars, statsVars>>

\* the peer a tracked id is registered for when it is registered once more
ApiAgainIds == {1}
ApiOtherPeer == [i \in ApiAgainIds |-> "C"]

\* register_message for an id that is already in the table, for another peer
ApiRegisterAgain(id) ==
    /\ id \in DOMAIN pending
    /\ ApiRegister(id, ApiOtherPeer[id], ApiSnr[id])

\* toggle_want_ack of the options menu
ToggleWantAck ==
    /\ WANT_ACK' = ~WANT_ACK
    /\ UNCHANGED <<now, trackerVars, linkVars, sent, loopVars, statsVars>>

\* no timer is due and no handler is running
Quiet == /\ cb.pc = "idle"
         /\ \A k \in 1..Len(timers) : now < TimerDue(timers[k])

\* on_ack_nak called with a packet of the caller's making
ApiOnAckNak(packet) ==
    /\ OnAckNakCheck(packet)
    /\ UNCHANGED responses

\* one second passes while the tracker is driven through its methods
ApiTick ==
    /\ now < MaxApiTime
    /\ Quiet
    /\ now' = now + 1
    /\ UNCHANGED <<trackerVars, WANT_ACK, linkVars, sent, loopVars, statsVars>>

\* ------------------------------------------------------------------------
\* Signal statistics
\* ------------------------------------------------------------------------

\* n/d rounded to the nearest integer, a tie to the even one
RoundRatio(n, d) ==
    LET q == n \div d
        r == n % d
    IN IF 2 * r > d THEN q + 1
       ELSE IF 2 * r = d THEN q + (q % 2)
       ELSE q

\* the distance between neighbouring floating-point numbers around n/d
RECURSIVE Spacing(_, _, _)
Spacing(n, d, sp) ==
    IF n < d * sp * (2 ^ Precision) THEN sp ELSE Spacing(n, d, 2 * sp)

\* the floating-point number nearest to n/d (n >= 0, d > 0)
FloatRound(n, d) == RoundRatio(n, d * Spacing(n, d, 1)) * Spacing(n, d, 1)

\* float * int, float + float, float / int
FloatMul(a, b) == FloatRound(a * b, 1)
FloatAdd(a, b) == FloatRound(a + b, 1)
FloatDiv(a, b) == FloatRound(a, b)

Min2(a, b) == IF a <= b THEN a ELSE b
Max2(a, b) == IF a >= b THEN a ELSE b

\* a window that is never trimmed
TrimNever(recent) == recent

\* update_snr_stats: recent.pop(0) once the window is over its size
Trim(recent) == IF Len(recent) > RecentMax THEN Tail(recent) ELSE recent

\* an update that divides by the count before it is increased
NextStatsStaleCount(st, v) ==
    [min |-> Min2(st.min, v),
     max |-> Max2(st.max, v),
     avg |-> FloatDiv(FloatAdd(FloatMul(st.avg, st.count), v), st.count),
     count |-> st.count + 1,
     recent |-> Trim(Append(st.recent, v))]

\* update_snr_stats: the entry after one more sample
NextStats(st, v) ==
    [min |-> Min2(st.min, v),
     max |-> Max2(st.max, v),
     avg |-> FloatDiv(FloatAdd(FloatMul(st.avg, st.count), v), st.count + 1),
     count |-> st.count + 1,
     recent |-> Trim(Append(st.recent, v))]

\* update_snr_stats: the entry of a node seen for the first time
FirstStats(v) == [min |-> v, max |-> v, avg |-> v, count |-> 1, recent |-> <<v>>]

\* update_snr_stats(node_name, snr); s is <<>> for None
UpdateSnrStats(stats, node_name, s) ==
    IF s = <<>> THEN stats
    ELSE [n \in DOMAIN stats \cup {node_name} |->
            IF n # node_name THEN stats[n]
            ELSE IF node_name \notin DOMAIN stats THEN FirstStats(s[1])
            ELSE NextStats(stats[node_name], s[1])]

\* every snr update_snr_stats was called with, per node
Recorded(log, node_name, s) ==
    IF s = <<>> THEN log
    ELSE [log EXCEPT ![node_name] = Append(@, s[1])]

\* a table that is saved at every other multiple of SavePeriod only
SaveDueLate(stats, node_name) == stats[node_name].count % (2 * SavePeriod) = 0

\* update_snr_stats: "if SNR_STATS[node_name]['count'] % 10 == 0"
SaveDue(stats, node_name) == stats[node_name].count % SavePeriod = 0

\* what can happen to the write of save_snr_stats: it succeeds, open() fails,
\* or json.dump fails after open() has truncated the file
WriteOutcomes == {"ok", "open_failed", "dump_failed"}

NoFile == [kind |-> "absent", table |-> [n \in {} |-> 0]]

\* save_snr_stats: the file after the write
SaveSnrStats(file, stats, outcome) ==
    CASE outcome = "ok" -> [kind |-> "table", table |-> stats]
      [] outcome = "open_failed" -> file
      [] outcome = "dump_failed" -> [kind |-> "corrupt", table |-> [n \in {} |-> 0]]

\* a save_snr_stats without the except clause
SaveErrorPropagates == "raised"

\* save_snr_stats: what its except clause does with a failed write
SaveErrorOutcome == "logged"

\* the record of one more save_snr_stats call
SaveMade(sv, outcome) ==
    [n |-> sv.n + 1,
     failed |-> sv.failed + (IF outcome = "ok" THEN 0 ELSE 1),
     outcome |-> outcome,
     how |-> IF outcome = "ok" THEN "saved" ELSE SaveErrorOutcome]

\* update_snr_stats called with a name and a value of the caller's choosing
ApiRecord(node_name, s) ==
    /\ Len(samples[node_name]) < MaxSamples
    /\ SNR_STATS' = UpdateSnrStats(SNR_STATS, node_name, s)
    /\ samples' = Recorded(samples, node_name, s)
    /\ IF s # <<>> /\ SaveDue(SNR_STATS', node_name)
       THEN \E outcome \in WriteOutcomes :
               /\ stats_file' = SaveSnrStats(stats_file, SNR_STATS', outcome)
               /\ saves' = SaveMade(saves, outcome)
       ELSE UNCHANGED <<stats_file, saves>>
    /\ UNCHANGED <<now, trackerVars, WANT_ACK, linkVars, sent, loopVars>>

\* SNR_STATS = {} of the module, no statistics file
InitStats ==
    /\ SNR_STATS = [n \in {} |-> 0]
    /\ samples = [n \in NodeNames |-> <<>>]
    /\ stats_file = NoFile
    /\ saves = [n |-> 0, failed |-> 0, outcome |-> "none", how |-> "none"]

\* ------------------------------------------------------------------------
\* Fan-out and the sensing loop
\* ------------------------------------------------------------------------
ConfiguredIds == {NODES[n] : n \in NodeNames}

\* get_target_node_info: the snr the node database holds for a node number
NodeDbSnr(node_id) == IF node_id = NODES["B"] THEN <<21>> ELSE <<>>

\* the node whose signal goes into the message: the first other configured
\* node, or the selected target
TargetForSignal(myId) ==
    IF myId # 0 /\ myId \in ConfiguredIds
    THEN LET others == SelectSeq(NodeOrder, LAMBDA n : NODES[n] # myId)
         IN IF others = <<>> THEN 0 ELSE NODES[others[1]]
    ELSE TARGET_NODE_INT

\* get_target_node_info(node_id): the snr it returns; None without an
\* interface or for target_for_signal = None
GetTargetNodeInfo(node_id) ==
    IF meshtastic_interface # "open" \/ node_id = 0 THEN <<>> ELSE NodeDbSnr(node_id)

\* the configured name of a node number
NameOfId(node_id) == CHOOSE n \in NodeNames : NODES[n] = node_id

\* NODES.get(node_name) for each name of a list
IdsOf(names) == [k \in 1..Len(names) |-> NODES[names[k]]]

\* get_target_node_info called for each node number of ids in turn: it
\* records the snr it finds under the node's configured name
RECURSIVE StatsAfterLookups(_, _, _)
StatsAfterLookups(stats, ids, k) ==
    IF k > Len(ids) THEN stats
    ELSE StatsAfterLookups(
             IF ids[k] \in ConfiguredIds
             THEN UpdateSnrStats(stats, NameOfId(ids[k]), GetTargetNodeInfo(ids[k]))
             ELSE stats,
             ids, k + 1)

RECURSIVE LogAfterLookups(_, _, _)
LogAfterLookups(log, ids, k) ==
    IF k > Len(ids) THEN log
    ELSE LogAfterLookups(
             IF ids[k] \in ConfiguredIds
             THEN Recorded(log, NameOfId(ids[k]), GetTargetNodeInfo(ids[k]))
             ELSE log,
             ids, k + 1)

\* the lookup of ids[k] records a value that makes the node's save due
LookupSaves(stats, ids, k) ==
    /\ ids[k] \in ConfiguredIds
    /\ GetTargetNodeInfo(ids[k]) # <<>>
    /\ SaveDue(UpdateSnrStats(stats, NameOfId(ids[k]), GetTargetNodeInfo(ids[k])),
               NameOfId(ids[k]))

\* the statistics file after the same lookups; the writes of the running
\* station succeed
RECURSIVE FileAfterLookups(_, _, _, _)
FileAfterLookups(file, stats, ids, k) ==
    IF k > Len(ids) THEN file
    ELSE LET next == StatsAfterLookups(stats, <<ids[k]>>, 1)
         IN FileAfterLookups(
                IF LookupSaves(stats, ids, k) THEN SaveSnrStats(file, next, "ok") ELSE file,
                next, ids, k + 1)

RECURSIVE SavesAfterLookups(_, _, _, _)
SavesAfterLookups(sv, stats, ids, k) ==
    IF k > Len(ids) THEN sv
    ELSE SavesAfterLookups(
             IF LookupSaves(stats, ids, k) THEN SaveMade(sv, "ok") ELSE sv,
             StatsAfterLookups(stats, <<ids[k]>>, 1), ids, k + 1)

\* target resolution that forgets to leave out the local node
ResolveTargetsAll(myId) ==
    IF myId # 0 /\ myId \in ConfiguredIds
    THEN [k \in 1..Len(NodeOrder) |-> [name |-> NodeOrder[k], node_id |-> NODES[NodeOrder[k]]]]
    ELSE <<[name |-> SELECTED_NODE_NAME, node_id |-> TARGET_NODE_INT]>>

\* send_meshtastic_message: target_nodes
ResolveTargets(myId) ==
    IF myId # 0 /\ myId \in ConfiguredIds
    THEN LET others == SelectSeq(NodeOrder, LAMBDA n : NODES[n] # myId)
         IN [k \in 1..Len(others) |-> [name |-> others[k], node_id |-> NODES[others[k]]]]
    ELSE <<[name |-> SELECTED_NODE_NAME, node_id |-> TARGET_NODE_INT]>>

\* a transport that numbers the packets of every batch from 1 again
BatchIdsReused(targets, first) ==
    [k \in 1..Len(targets) |-> [id |-> k, name |-> targets[k].name]]

\* message_ids of a batch whose sendData calls all returned a packet
BatchIds(targets, first) ==
    [k \in 1..Len(targets) |-> [id |-> first + k - 1, name |-> targets[k].name]]

\* every packet tracked, whatever the want_ack setting
TrackedIdsAlways(targets, first, wantAck) == BatchIds(targets, first)

\* "if packet and WANT_ACK": the packets that are registered
TrackedIds(targets, first, wantAck) ==
    IF wantAck THEN BatchIds(targets, first) ELSE <<>>

\* register_message for each packet of the batch, in sending order
RECURSIVE RegisterBatch(_, _, _, _, _)
RegisterBatch(p, ids, k, s, t) ==
    IF k > Len(ids) THEN p
    ELSE RegisterBatch(RegisterMessage(p, ids[k].id, ids[k].name, s, t), ids, k + 1, s, t)

\* the names of a batch whose status is one of S, in message_ids order
NamesWith(p, ids, S) ==
    LET hit == SelectSeq(ids, LAMBDA m : GetStatus(p, m.id) \in S)
    IN [k \in 1..Len(hit) |-> hit[k].name]

\* the ids of a batch whose status is one of S
IdsWith(p, ids, S) ==
    {ids[k].id : k \in {j \in 1..Len(ids) : GetStatus(p, ids[j].id) \in S}}

AllStatuses == {"ack", "nak", "impl_ack", "pending", "unknown"}

NoResult == [sent |-> 0, acked |-> <<>>, nacked |-> <<>>, pending |-> <<>>, ackedIds |-> {}]
NoClass == [kind |-> "none", acked |-> <<>>, nacked |-> <<>>, pending |-> <<>>,
            ackedIds |-> {}, ids |-> <<>>]
NoRetry == <<0, <<>>, <<>>>>

\* send_meshtastic_message: the lists it returns after its half-second wait
SendResult(p, ids, count) ==
    [sent |-> count,
     acked |-> NamesWith(p, ids, {"ack"}),
     nacked |-> NamesWith(p, ids, {"nak"}),
     pending |-> NamesWith(p, ids, AllStatuses \ {"ack", "nak"}),
     ackedIds |-> IdsWith(p, ids, {"ack"})]

\* run_weather_station: the lists built after the 5 second wait
LoopClass(p, ids, kind) ==
    [kind |-> kind,
     acked |-> NamesWith(p, ids, {"ack"}),
     nacked |-> NamesWith(p, ids, {"nak"}),
     pending |-> NamesWith(p, ids, {"pending"}),
     ackedIds |-> IdsWith(p, ids, {"ack"}),
     ids |-> ids]

\* a retry block that gives up after its one resend
RetryGiveUp(c, msg, t) == NoRetry

\* retry block: <<pending_retry_time, pending_message, pending_recipients>>
\* after the resend was classified
RetryRearm(c, msg, t) ==
    IF c.pending # <<>> THEN <<t + ACK_RETRY_TIMEOUT, msg, c.pending>>
    ELSE NoRetry

\* a natural send that measures the retry delay from the send, not from the
\* end of the wait
NaturalArmFromSend(c, msg, t, old) ==
    LET armed == IF c.pending # <<>>
                 THEN <<t - AckWindow + ACK_RETRY_TIMEOUT, msg, c.pending>>
                 ELSE old
        none == IF c.acked = <<>> /\ c.nacked = <<>> /\ c.pending = <<>>
                THEN NoRetry ELSE armed
    IN IF c.acked # <<>> THEN NoRetry ELSE none

\* a natural send that sets the retry time for a refused batch too
NaturalArmOnNak(c, msg, t, old) ==
    LET armed == IF c.pending # <<>> \/ c.nacked # <<>>
                 THEN <<t + ACK_RETRY_TIMEOUT, msg, c.pending>>
                 ELSE old
        none == IF c.acked = <<>> /\ c.nacked = <<>> /\ c.pending = <<>>
                THEN NoRetry ELSE armed
    IN IF c.acked # <<>> THEN NoRetry ELSE none

\* natural send: the retry state after the batch was classified
NaturalArm(c, msg, t, old) ==
    LET armed == IF c.pending # <<>> THEN <<t + ACK_RETRY_TIMEOUT, msg, c.pending>>
                 ELSE old
        none == IF c.acked = <<>> /\ c.nacked = <<>> /\ c.pending = <<>>
                THEN NoRetry ELSE armed
    IN IF c.acked # <<>> THEN NoRetry ELSE none

\* natural send: LAST_ACK_STATUS after the batch was classified
NaturalAckStatus(c, old) ==
    IF c.acked # <<>> THEN "A"
    ELSE IF c.nacked # <<>> \/ c.pending # <<>> THEN "U"
    ELSE old

\* an init_meshtastic that takes the first configured node for its own
InitMeshtasticAssumed(myInfo) ==
    IF linkUp
    THEN /\ meshtastic_interface' = "open"
         /\ meshtastic_connected' = TRUE
         /\ my_node_id' = NODES[NodeOrder[1]]
         /\ local_num' = deviceNum
    ELSE /\ meshtastic_interface' = "None"
         /\ meshtastic_connected' = FALSE
         /\ my_node_id' = 0
         /\ local_num' = 0

\* init_meshtastic: the connection state it leaves; myInfo tells whether the
\* interface reports its own node number
InitMeshtastic(myInfo) ==
    IF linkUp
    THEN /\ meshtastic_interface' = "open"
         /\ meshtastic_connected' = TRUE
         /\ my_node_id' = IF myInfo THEN deviceNum ELSE 0
         /\ local_num' = deviceNum
    ELSE /\ meshtastic_interface' = "None"
         /\ meshtastic_connected' = FALSE
         /\ my_node_id' = 0
         /\ local_num' = 0

\* send_meshtastic_message(msg, s) up to its half-second wait, for the
\* interface iface and the identity myId: the sendData calls and the
\* registrations.  Every sendData raises while the radio is unplugged; the
\* per-target handler logs it and goes on to the next target.
SendMessage(msg, s, isRetry, iface, myId) ==
    LET targets == ResolveTargets(myId)
        ids == IF linkUp THEN TrackedIds(targets, nextId, WANT_ACK) ELSE <<>>
        count == IF linkUp THEN Len(targets) ELSE 0
    IN IF iface # "open"
       THEN /\ result' = NoResult
            /\ current_msg_ids' = <<>>
            /\ sent' = {}
            /\ UNCHANGED <<trackerVars, nextId, lastTargets>>
       ELSE /\ \A k \in 1..Len(ids) : ids[k].id \in MsgIds
            /\ lastTargets' = [self |-> myId, targets |-> targets,
                               raised |-> IF linkUp THEN 0 ELSE Len(targets)]
            /\ current_msg_ids' = ids
            /\ nextId' = nextId + Len(ids)
            /\ pending' = RegisterBatch(pending, ids, 1, s, now)
            /\ history' = [i \in DOMAIN history |->
                             IF \E k \in 1..Len(ids) : ids[k].id = i THEN "registered"
                             ELSE history[i]]
            /\ sent' = IF linkUp
                       THEN {[kind |-> "data", to |-> targets[k].name,
                              wantAck |-> WANT_ACK, at |-> now,
                              id |-> IF WANT_ACK THEN ids[k].id ELSE 0,
                              snr |-> s, msg |-> msg, retry |-> isRetry]
                             : k \in 1..Len(targets)}
                       ELSE {}
            /\ result' = [NoResult EXCEPT !.sent = count]
            /\ UNCHANGED <<cb, cbOutcome, timers, conf, remote>>

\* the locals of one pass of the loop are dead when the pass ends
EndPass ==
    /\ pc' = "top"
    /\ wakeAt' = now + LoopSleep
    /\ reading' = FALSE
    /\ current_time' = 0
    /\ message' = <<>>
    /\ snr' = <<>>
    /\ retry_message' = <<>>

\* run_weather_station before its loop: init_meshtastic()
StartRun ==
    /\ pc = "start"
    /\ \E myInfo \in BOOLEAN : InitMeshtastic(myInfo)
    /\ pc' = "top"
    /\ wakeAt' = now
    /\ UNCHANGED <<now, trackerVars, WANT_ACK, linkUp, deviceNum, sent, reading,
                   current_time, message, snr, retryVars, first_message_sent,
                   last_minute_sent, last_reconnect_attempt, LAST_ACK_STATUS,
                   current_msg_ids, result, retry_message, nextId, batches,
                   lastTargets, lastClass, responses, reconnects, statsVars>>

\* top of a pass: read_sensor(), whose outcome is one of readings,
\* current_time, and the retry gate with its resend
LoopTopWith(readings) ==
    /\ pc = "top"
    /\ now >= wakeAt
    /\ reading' \in readings
    /\ current_time' = now
    /\ IF WANT_ACK /\ pending_retry_time # 0 /\ now >= pending_retry_time
       THEN /\ pending_retry_time' = 0
            /\ pending_message' = <<>>
            /\ pending_recipients' = <<>>
            /\ retry_message' = pending_message
            /\ IF meshtastic_connected /\ pending_message # <<>>
               THEN /\ SendMessage(pending_message, <<>>, TRUE, meshtastic_interface, my_node_id)
                    /\ batches' = batches + 1
                    /\ pc' = IF result'.sent > 0 THEN "retry_brief" ELSE "reading"
               ELSE /\ pc' = "reading"
                    /\ UNCHANGED <<trackerVars, sent, current_msg_ids, result, nextId,
                                   batches, lastTargets>>
       ELSE /\ pc' = "reading"
            /\ UNCHANGED <<trackerVars, sent, retryVars, current_msg_ids, result,
                           retry_message, nextId, batches, lastTargets>>
    /\ UNCHANGED <<now, WANT_ACK, linkVars, wakeAt, message, snr, first_message_sent,
                   last_minute_sent, last_reconnect_attempt, LAST_ACK_STATUS, lastClass,
                   responses, reconnects, statsVars>>

\* top of a pass; the sensor misses readings only early in the run
LoopTop == LoopTopWith(IF now < StartTime + MissWindow THEN BOOLEAN ELSE {TRUE})

\* the resend's send_meshtastic_message returns after its half-second wait,
\* and the retry block starts its time.sleep(5)
RetryBrief ==
    /\ pc = "retry_brief"
    /\ result' = SendResult(pending, current_msg_ids, result.sent)
    /\ pc' = "retry_wait"
    /\ wakeAt' = now + AckWindow
    /\ UNCHANGED <<now, trackerVars, WANT_ACK, linkVars, sent, reading, current_time,
                   message, snr, retryVars, first_message_sent, last_minute_sent,
                   last_reconnect_attempt, LAST_ACK_STATUS, current_msg_ids,
                   retry_message, nextId, batches, lastTargets, lastClass, responses, reconnects, statsVars>>

\* retry block after time.sleep(5): classification and re-arming
RetryClassify ==
    /\ pc = "retry_wait"
    /\ now >= wakeAt
    /\ lastClass' = LoopClass(pending, current_msg_ids, "retry")
    /\ SNR_STATS' = StatsAfterLookups(SNR_STATS, IdsOf(lastClass'.acked), 1)
    /\ samples' = LogAfterLookups(samples, IdsOf(lastClass'.acked), 1)
    /\ stats_file' = FileAfterLookups(stats_file, SNR_STATS, IdsOf(lastClass'.acked), 1)
    /\ saves' = SavesAfterLookups(saves, SNR_STATS, IdsOf(lastClass'.acked), 1)
    /\ pending_retry_time' = RetryRearm(lastClass', retry_message, now)[1]
    /\ pending_message' = RetryRearm(lastClass', retry_message, now)[2]
    /\ pending_recipients' = RetryRearm(lastClass', retry_message, now)[3]
    /\ pc' = "reading"
    /\ UNCHANGED <<now, trackerVars, WANT_ACK, linkVars, sent, wakeAt, reading,
                   current_time, message, snr, first_message_sent, last_minute_sent,
                   last_reconnect_attempt, LAST_ACK_STATUS, current_msg_ids, result,
                   retry_message, nextId, batches, lastTargets, responses, reconnects>>

\* the seconds and minutes fields of time.localtime(t)
SecondOf(t) == t % MinuteLen
MinuteOf(t) == (t \div MinuteLen) % 60

\* format_message: the fields of the text that vary in this model
FormatMessage(t, ackStatus) == <<[at |-> t, ack |-> ackStatus]>>

\* a reconnect check that attempts whenever the link is down
ReconnectAlwaysDue(t, last) == t >= last

\* the reconnect check: enough time has passed since the last attempt
ReconnectDue(t, last) == t - last >= USB_RECONNECT_INTERVAL

\* the rest of a pass once the sensor was read and a retry, if due, was
\* handled: snr lookup, format_message, reconnect check, the send gate and the
\* send
ReadingBranch ==
    /\ pc = "reading"
    /\ IF ~reading
       THEN /\ EndPass
            /\ UNCHANGED <<trackerVars, linkVars, sent, first_message_sent,
                           last_minute_sent, last_reconnect_attempt, LAST_ACK_STATUS,
                           current_msg_ids, result, nextId, batches, lastTargets,
                           reconnects, statsVars>>
       ELSE /\ SNR_STATS' = StatsAfterLookups(SNR_STATS, <<TargetForSignal(my_node_id)>>, 1)
            /\ samples' = LogAfterLookups(samples, <<TargetForSignal(my_node_id)>>, 1)
            /\ stats_file' = FileAfterLookups(stats_file, SNR_STATS,
                                              <<TargetForSignal(my_node_id)>>, 1)
            /\ saves' = SavesAfterLookups(saves, SNR_STATS,
                                          <<TargetForSignal(my_node_id)>>, 1)
            /\ IF ~meshtastic_connected /\ ReconnectDue(now, last_reconnect_attempt)
               THEN /\ \E myInfo \in BOOLEAN : InitMeshtastic(myInfo)
                    /\ last_reconnect_attempt' = now
                    /\ reconnects' = [n |-> reconnects.n + 1, at |-> now,
                                      prev |-> reconnects.at]
               ELSE UNCHANGED <<meshtastic_interface, meshtastic_connected, my_node_id,
                                local_num, last_reconnect_attempt, reconnects>>
            /\ UNCHANGED <<linkUp, deviceNum>>
            /\ LET should_send_first == meshtastic_connected' /\ ~first_message_sent
                   should_send_regular ==
                       /\ meshtastic_connected'
                       /\ SecondOf(current_time) = 0
                       /\ MinuteOf(current_time) # last_minute_sent
               IN IF should_send_first \/ should_send_regular
                  THEN /\ first_message_sent' = (first_message_sent \/ should_send_first)
                       /\ last_minute_sent' = MinuteOf(current_time)
                       /\ snr' = GetTargetNodeInfo(TargetForSignal(my_node_id))
                       /\ message' = FormatMessage(current_time, LAST_ACK_STATUS)
                       /\ SendMessage(message', snr', FALSE, meshtastic_interface',
                                      my_node_id')
                       /\ batches' = 1
                       /\ IF result'.sent > 0 /\ WANT_ACK
                          THEN /\ pc' = "brief"
                               /\ UNCHANGED <<wakeAt, reading, current_time,
                                              retry_message, LAST_ACK_STATUS>>
                          ELSE /\ pc' = "top"
                               /\ wakeAt' = now + LoopSleep
                               /\ reading' = FALSE
                               /\ current_time' = 0
                               /\ retry_message' = <<>>
                               /\ LAST_ACK_STATUS' = IF result'.sent > 0 THEN ""
                                                     ELSE LAST_ACK_STATUS
                  ELSE /\ EndPass
                       /\ UNCHANGED <<trackerVars, sent, first_message_sent,
                                      last_minute_sent, LAST_ACK_STATUS,
                                      current_msg_ids, result, nextId, batches,
                                      lastTargets>>
    /\ UNCHANGED <<now, WANT_ACK, retryVars, lastClass, responses>>

\* a loop that goes on to classify without its time.sleep(5)
BriefNoWait ==
    /\ pc = "brief"
    /\ result' = SendResult(pending, current_msg_ids, result.sent)
    /\ pc' = "wait"
    /\ wakeAt' = now
    /\ UNCHANGED <<now, trackerVars, WANT_ACK, linkVars, sent, reading, current_time,
                   message, snr, retryVars, first_message_sent, last_minute_sent,
                   last_reconnect_attempt, LAST_ACK_STATUS, current_msg_ids,
                   retry_message, nextId, batches, lastTargets, lastClass, responses,
                   reconnects, statsVars>>

\* send_meshtastic_message returns after its half-second wait, and the loop
\* starts its time.sleep(5)
Brief ==
    /\ pc = "brief"
    /\ result' = SendResult(pending, current_msg_ids, result.sent)
    /\ pc' = "wait"
    /\ wakeAt' = now + AckWindow
    /\ UNCHANGED <<now, trackerVars, WANT_ACK, linkVars, sent, reading, current_time,
                   message, snr, retryVars, first_message_sent, last_minute_sent,
                   last_reconnect_attempt, LAST_ACK_STATUS, current_msg_ids,
                   retry_message, nextId, batches, lastTargets, lastClass, responses, reconnects, statsVars>>

\* the loop after time.sleep(5): classification of the batch, the retry state
\* and LAST_ACK_STATUS; then the pass ends
NaturalClassify ==
    /\ pc = "wait"
    /\ now >= wakeAt
    /\ lastClass' = LoopClass(pending, current_msg_ids, "natural")
    /\ SNR_STATS' = StatsAfterLookups(SNR_STATS, IdsOf(lastClass'.acked), 1)
    /\ samples' = LogAfterLookups(samples, IdsOf(lastClass'.acked), 1)
    /\ stats_file' = FileAfterLookups(stats_file, SNR_STATS, IdsOf(lastClass'.acked), 1)
    /\ saves' = SavesAfterLookups(saves, SNR_STATS, IdsOf(lastClass'.acked), 1)
    /\ LET old == <<pending_retry_time, pending_message, pending_recipients>>
           new == NaturalArm(lastClass', message, now, old)
       IN /\ pending_retry_time' = new[1]
          /\ pending_message' = new[2]
          /\ pending_recipients' = new[3]
    /\ LAST_ACK_STATUS' = NaturalAckStatus(lastClass', LAST_ACK_STATUS)
    /\ EndPass
    /\ UNCHANGED <<now, trackerVars, WANT_ACK, linkVars, sent, first_message_sent,
                   last_minute_sent, last_reconnect_attempt, current_msg_ids, result,
                   nextId, batches, lastTargets, responses, reconnects>>

\* the sleeps of the loop
Sleeping == pc \in {"top", "wait", "retry_wait"} /\ now < wakeAt

\* one second passes
Tick ==
    /\ now < MaxTime
    /\ Quiet
    /\ Sleeping
    /\ now' = now + 1
    /\ UNCHANGED <<trackerVars, WANT_ACK, linkVars, sent, loopVars, statsVars>>

\* the ids of the batch sent last
BatchIdSet == {current_msg_ids[k].id : k \in 1..Len(current_msg_ids)}

\* routing packets the radio may report for the messages of the batch sent
\* last: from the local node (queued) or from the peer the message went to
RoutingPackets ==
    {[requestId |-> i, id |-> 0, from |-> f, errorReason |-> e] :
        i \in BatchIdSet, f \in {local_num} \cup ConfiguredIds,
        e \in ErrorReasons}

\* the loop is inside a send or in the 5 second wait that follows it
Awaiting == pc \in {"brief", "wait", "retry_brief", "retry_wait"}

\* the transport thread calls on_ack_nak with a routing packet; the
\* responses explored are those that arrive while the loop awaits them
Deliver(packet) ==
    /\ Awaiting
    /\ meshtastic_interface = "open"
    /\ linkUp
    /\ WANT_ACK
    /\ responses < MaxResponses
    /\ packet.from \in {local_num, NODES[pending[packet.requestId].node_name]}
    /\ OnAckNakCheck(packet)
    /\ responses' = responses + 1

\* the radio is unplugged, early in the run
Unplug ==
    /\ linkUp
    /\ now < StartTime + PlugWindow
    /\ linkUp' = FALSE
    /\ UNCHANGED <<now, trackerVars, WANT_ACK, meshtastic_interface, local_num,
                   my_node_id, meshtastic_connected, deviceNum, sent, loopVars, statsVars>>

\* a radio is plugged in, early in the run, while no interface is open
Replug(dev) ==
    /\ ~linkUp
    /\ meshtastic_interface = "None"
    /\ now < StartTime + PlugWindow
    /\ linkUp' = TRUE
    /\ deviceNum' = dev
    /\ UNCHANGED <<now, trackerVars, WANT_ACK, meshtastic_interface, local_num,
                   my_node_id, meshtastic_connected, sent, loopVars, statsVars>>

\* ------------------------------------------------------------------------
\* Initial state: module load, before init_meshtastic
\* ------------------------------------------------------------------------
InitTracker ==
    /\ pending = Remove(<<>>, {})
    /\ cb = CbIdle
    /\ cbOutcome = [how |-> "none", id |-> 0]
    /\ timers = <<>>
    /\ conf = ConfIdle
    /\ history = [i \in MsgIds |-> "unregistered"]
    /\ remote = {}

InitLoop ==
    /\ pc = "start"
    /\ wakeAt = 0
    /\ reading = FALSE
    /\ current_time = 0
    /\ message = <<>>
    /\ snr = <<>>
    /\ pending_retry_time = 0
    /\ pending_message = <<>>
    /\ pending_recipients = <<>>
    /\ first_message_sent = FALSE
    /\ last_minute_sent = -1
    /\ last_reconnect_attempt = 0
    /\ LAST_ACK_STATUS = ""
    /\ current_msg_ids = <<>>
    /\ result = NoResult
    /\ retry_message = <<>>
    /\ nextId = 1
    /\ batches = 0
    /\ lastTargets = [self |-> 0, targets |-> <<>>, raised |-> 0]
    /\ lastClass = NoClass
    /\ responses = 0
    /\ reconnects = [n |-> 0, at |-> 0, prev |-> 0]

\* the tracker of a station whose radio (node A) is connected
TrackerInit ==
    /\ now = 0
    /\ InitTracker
    /\ InitLoop
    /\ InitStats
    /\ WANT_ACK \in BOOLEAN
    /\ meshtastic_interface = "open"
    /\ local_num = NODES["A"]
    /\ my_node_id = NODES["A"]
    /\ meshtastic_connected = TRUE
    /\ linkUp = TRUE
    /\ deviceNum = NODES["A"]
    /\ sent = {}

TrackerNext ==
    \/ \E id \in ApiIds : ApiRegister(id, ApiPeer[id], ApiSnr[id])
    \/ \E id \in ApiAgainIds : ApiRegisterAgain(id)
    \/ \E packet \in Packets(ApiEventIds) : ApiOnAckNak(packet)
    \/ OnAckNakUpdate
    \/ \E k \in 1..MaxTimers : FireTimer(k)
    \/ \E timeout \in 0..MaxAge : CleanupOld(timeout)
    \/ Clear
    \/ ApiTick

TrackerSpec == TrackerInit /\ [][TrackerNext]_vars

\* the tracker's confirmations while the menu and the loop change the
\* globals send_ack_confirmation reads
ConfirmNext ==
    \/ \E id \in ApiIds : ApiRegister(id, ApiPeer[id], ApiSnr[id])
    \/ \E packet \in Packets(ApiEventIds) : ApiOnAckNak(packet)
    \/ OnAckNakUpdate
    \/ \E k \in 1..MaxTimers : ConfirmationCheck(k)
    \/ ConfirmationSend
    \/ ToggleWantAck
    \/ DropInterface
    \/ ApiTick

ConfirmSpec == TrackerInit /\ [][ConfirmNext]_vars

\* the statistics driven through update_snr_stats alone
StatsInit ==
    /\ now = 0
    /\ InitTracker
    /\ InitLoop
    /\ InitStats
    /\ WANT_ACK = FALSE
    /\ meshtastic_interface = "None"
    /\ local_num = 0
    /\ my_node_id = 0
    /\ meshtastic_connected = FALSE
    /\ linkUp = FALSE
    /\ deviceNum = NODES["A"]
    /\ sent = {}

StatsNext == \E node_name \in {"B", "C"}, s \in {<<v>> : v \in Samples} \cup {<<>>} :
                ApiRecord(node_name, s)

StatsSpec == StatsInit /\ [][StatsNext]_vars

\* the program at the start of run_weather_station, some seconds before a
\* whole minute
Init ==
    /\ now = StartTime
    /\ InitTracker
    /\ InitLoop
    /\ InitStats
    /\ WANT_ACK \in BOOLEAN
    /\ meshtastic_interface = "None"
    /\ local_num = 0
    /\ my_node_id = 0
    /\ meshtastic_connected = FALSE
    /\ linkUp \in BOOLEAN
    /\ deviceNum \in DeviceNums
    /\ sent = {}

Next ==
    \/ StartRun
    \/ LoopTop
    \/ RetryBrief
    \/ RetryClassify
    \/ ReadingBranch
    \/ Brief
    \/ NaturalClassify
    \/ Tick
    \/ \E packet \in RoutingPackets : Deliver(packet)
    \/ OnAckNakUpdate
    \/ \E k \in 1..MaxTimers : FireTimer(k)
    \/ Unplug
    \/ \E dev \in DeviceNums : Replug(dev)

Spec == Init /\ [][Next]_vars

\* the loop of a station that starts without a radio and with ack mode off,
\* whose sensor may miss a reading in any pass made while it is disconnected;
\* the loop thread keeps running, also after the last second the clock of
\* the model counts
LinkInit ==
    /\ Init
    /\ ~WANT_ACK
    /\ ~linkUp

\* the loop's time.sleep(1) ends after the last second the clock of the
\* model counts: the loop of a station that is still disconnected goes on,
\* the clock reading stays
HorizonTick ==
    /\ now = MaxTime
    /\ ~meshtastic_connected
    /\ Quiet
    /\ pc = "top"
    /\ now < wakeAt
    /\ wakeAt' = now
    /\ UNCHANGED <<now, trackerVars, WANT_ACK, linkVars, sent, pc, reading,
                   current_time, message, snr, retryVars, first_message_sent,
                   last_minute_sent, last_reconnect_attempt, LAST_ACK_STATUS,
                   current_msg_ids, result, retry_message, nextId, batches,
                   lastTargets, lastClass, responses, reconnects, statsVars>>

LoopStep ==
    \/ StartRun
    \/ LoopTopWith(IF meshtastic_connected THEN {TRUE} ELSE BOOLEAN)
    \/ ReadingBranch
    \/ Tick
    \/ HorizonTick

LinkNext ==
    \/ LoopStep
    \/ Unplug
    \/ \E dev \in DeviceNums : Replug(dev)

LinkSpec == LinkInit /\ [][LinkNext]_vars /\ WF_vars(LoopStep)

\* ------------------------------------------------------------------------
\* Properties of the tracker
\* ------------------------------------------------------------------------

\* a step in which on_ack_nak takes the lock and returns
UpdateStep == cb.pc = "locked" /\ cb'.pc = "idle"

\* a step in which on_ack_nak returns at its membership test
IgnoreStep == cb.pc = "idle" /\ cb'.pc = "idle" /\ cbOutcome' # cbOutcome

\* C1: a response for a tracked entry that is still pending decides what
\* get_status returns: an error reason gives nak; otherwise a sender equal to
\* the local node number gives impl_ack; otherwise ack.
C1_FirstEventClassifies ==
    [][ (UpdateStep /\ GetStatus(pending, cb.request_id) = "pending")
        => GetStatus(pending', cb.request_id) =
             (IF cb.error_reason # "NONE" THEN "nak"
              ELSE IF cb.from_node = LocalNumSeen THEN "impl_ack"
              ELSE "ack") ]_vars

\* C1 witness: a response with an error reason sent from the local address
\* was processed for a pending entry, which now reads nak
C1_Witness ==
    /\ cbOutcome = [how |-> "updated", id |-> 1]
    /\ 1 \notin remote
    /\ GetStatus(pending, 1) = "nak"
    /\ ~pending[1].ack_received /\ ~pending[1].impl_ack_received

\* C2: once get_status returns ack, impl_ack or nak for an id, no later
\* response changes what it returns.
C2_TerminalIsFinal ==
    [][ (UpdateStep /\ GetStatus(pending, cb.request_id) \in {"ack", "impl_ack", "nak"})
        => GetStatus(pending', cb.request_id) = GetStatus(pending, cb.request_id) ]_vars

\* C4: a response whose id is not in the table (never registered, expired or
\* cleared, also between the membership test and the lock) leaves the table
\* as it is, and on_ack_nak returns without raising.
C4_UntrackedEventIgnored ==
    [][ /\ (IgnoreStep /\ cbOutcome'.id \notin DOMAIN pending)
           => (pending' = pending /\ cbOutcome'.how = "ignored")
        /\ (UpdateStep /\ cb.request_id \notin DOMAIN pending)
           => (pending' = pending /\ cbOutcome'.how \in {"ignored", "caught"}) ]_vars

\* C4 witness: the entry of id 1 was cleared between the membership test and
\* the lock, and the handler returned
C4_Witness ==
    /\ cbOutcome = [how |-> KeyErrorOutcome, id |-> 1]
    /\ history[1] \in {"cleanup_old", "clear"}
    /\ cb.pc = "idle"

\* C5: cleanup_old(timeout) removes every entry with now - timestamp > timeout
\* and keeps every other entry as it was.
C5_SweepExact ==
    [][ \A timeout \in 0..MaxAge :
          CleanupOld(timeout) =>
            \A i \in DOMAIN pending :
              IF now - pending[i].timestamp > timeout
              THEN i \notin DOMAIN pending'
              ELSE i \in DOMAIN pending' /\ pending'[i] = pending[i] ]_vars

\* C5 witness: a sweep has removed id 2 and kept the entry of id 1, which
\* carries a flag and is older than zero seconds
C5_Witness ==
    /\ history[2] = "cleanup_old"
    /\ 1 \in DOMAIN pending
    /\ pending[1].timestamp < now
    /\ pending[1].nak_received

\* C6: get_status returns unknown exactly for the ids that were never
\* registered or whose entry was removed by cleanup_old or clear; for a
\* tracked id it returns pending, ack, impl_ack or nak.
C6_UnknownIffUntracked ==
    \A i \in MsgIds :
        /\ GetStatus(pending, i) = "unknown" <=> history[i] # "registered"
        /\ history[i] = "registered"
             => GetStatus(pending, i) \in {"pending", "ack", "impl_ack", "nak"}

\* C6 witness: one id removed by the sweep reads unknown while another is
\* tracked and reads impl_ack
C6_Witness ==
    /\ history[2] = "cleanup_old" /\ GetStatus(pending, 2) = "unknown"
    /\ history[1] = "registered" /\ GetStatus(pending, 1) = "impl_ack"
    /\ history[3] = "unregistered" /\ GetStatus(pending, 3) = "unknown"

\* C7: a response without error reason from another node's address makes the
\* status ack and, with want_ack on, starts one timer of ACK_WAIT_TIME seconds
\* for a confirmation to the entry's peer; no confirmation is sent earlier
\* than ACK_WAIT_TIME after that response.
C7_ConfirmationAfterWait ==
    /\ [][ (/\ UpdateStep
            /\ cb.request_id \in DOMAIN pending
            /\ cb.error_reason = "NONE"
            /\ cb.from_node # LocalNumSeen)
           => /\ GetStatus(pending', cb.request_id) = "ack"
              /\ WANT_ACK =>
                   /\ Len(timers') = Len(timers) + 1
                   /\ timers'[Len(timers')].started + ACK_WAIT_TIME = TimerDue(timers'[Len(timers')])
                   /\ timers'[Len(timers')].started = now
                   /\ timers'[Len(timers')].node_name = pending[cb.request_id].node_name
              /\ ~WANT_ACK => timers' = timers ]_vars
    /\ [](\A c \in sent : c.kind = "conf" => c.at >= c.started + ACK_WAIT_TIME)

\* C7 witness: the confirmation for id 1 went to its peer exactly
\* ACK_WAIT_TIME after the acknowledgment
C7_Witness ==
    \E c \in sent :
        /\ c.kind = "conf" /\ c.for = 1 /\ c.to = ApiPeer[1]
        /\ c.at = c.started + ACK_WAIT_TIME
        /\ GetStatus(pending, 1) = "ack"

\* C17: while on_ack_nak stands between its membership test and its update,
\* no other operation touches the entry it has tested: the entry is there,
\* unchanged, when the update runs.
C17_CheckAndUpdateAtomic ==
    [][ (cb.pc = "locked" /\ cb'.pc = "locked")
        => /\ cb.request_id \in DOMAIN pending'
           /\ pending'[cb.request_id] = pending[cb.request_id] ]_vars

\* register_message is called for an id that is in the table
DuplicateRegisterStep(id) ==
    /\ id \in DOMAIN pending
    /\ \/ ApiRegister(id, ApiPeer[id], ApiSnr[id])
       \/ id \in ApiAgainIds /\ ApiRegisterAgain(id)

C25_SweepKeepsTerminal ==
    [][ \A timeout \in 0..MaxAge :
          CleanupOld(timeout) =>
            \A i \in DOMAIN pending :
              GetStatus(pending, i) # "pending" => i \in DOMAIN pending' ]_vars

\* a confirmation is scheduled and its wait is not over
ConfirmationOutstanding == \E k \in 1..Len(timers) : now < TimerDue(timers[k])

C33_OneConfirmationPerMessage ==
    [][ Len(timers') = Len(timers) + 1
        => ~pending[cb.request_id].ack_received ]_vars

\* a due timer enters send_ack_confirmation
ConfirmationCheckStep == conf.pc = "idle" /\ Len(timers') = Len(timers) - 1

\* send_ack_confirmation reaches its sendData call and returns
ConfirmationSendStep == conf.pc = "checked" /\ conf'.pc = "idle"

\* C37: a confirmation whose timer fires when the interface is dropped or
\* want_ack is off returns without sending; one that finds the interface
\* dropped between its test and its sendData call sends nothing either and
\* its exception is logged, not raised; no step of a confirmation changes
\* the pending table.
C37_LateConfirmationHarmless ==
    [][ /\ (ConfirmationCheckStep /\ (meshtastic_interface # "open" \/ ~WANT_ACK))
           => conf' = ConfDone("returned") /\ sent' = {}
        /\ (ConfirmationSendStep /\ meshtastic_interface # "open")
           => conf'.outcome = "logged" /\ sent' = {}
        /\ (ConfirmationCheckStep \/ ConfirmationSendStep)
           => /\ pending' = pending
              /\ conf'.outcome # "raised"
              /\ \A c \in sent' : c.kind = "conf" /\ meshtastic_interface = "open" ]_vars

\* the interface was dropped while the confirmation for the acknowledged
\* id 1 waited; its timer fired and send_ack_confirmation returned
C37_Witness ==
    /\ conf = ConfDone("returned")
    /\ meshtastic_interface = "None"
    /\ WANT_ACK
    /\ timers = <<>>
    /\ sent = {}
    /\ GetStatus(pending, 1) = "ack"

\* ------------------------------------------------------------------------
\* Properties of the program
\* ------------------------------------------------------------------------

\* the step in which the loop classifies a batch after its 5 second wait
NaturalClassifyStep == pc = "wait" /\ pc' = "top"

\* the step in which the retry block classifies the resent batch
RetryClassifyStep == pc = "retry_wait" /\ pc' = "reading"

\* the place of a configured name in the [nodes] section
OrderOf(n) == CHOOSE k \in 1..Len(NodeOrder) : NodeOrder[k] = n

\* C3: an implicit acknowledgment is never treated as delivery: a message
\* whose responses all came from the local node's own address is in the
\* acked list of no classification (the one send_meshtastic_message returns,
\* the loop's after a natural send, the loop's after a retry), and no
\* confirmation timer is started for it.
C3_ImplicitAckNotSuccess ==
    /\ result.ackedIds \subseteq remote
    /\ lastClass.ackedIds \subseteq remote
    /\ \A k \in 1..Len(timers) : timers[k].id \in remote

\* C3 witness: the loop has classified a batch in which a message stood at
\* impl_ack, answered from the local address only; it is not in the acked
\* list and no timer runs
C3_Witness ==
    /\ lastClass.kind = "natural"
    /\ pc = "top"
    /\ timers = <<>>
    /\ \E k \in 1..Len(lastClass.ids) :
         /\ GetStatus(pending, lastClass.ids[k].id) = "impl_ack"
         /\ lastClass.ids[k].id \notin remote
         /\ lastClass.ids[k].id \notin lastClass.ackedIds
         /\ lastClass.ids[k].id \notin result.ackedIds

C9_PendingPeerRetried ==
    [][ (/\ NaturalClassifyStep
         /\ lastClass'.acked # <<>>
         /\ lastClass'.pending # <<>>)
        => /\ pending_retry_time' # 0
           /\ pending_recipients' = lastClass'.pending ]_vars

\* C10: the targets of a send are, when the device's node number is known
\* and is a configured node, every other configured node once, in the order
\* of the configuration, each with its configured number, and never the
\* local node; otherwise exactly the selected node.
C10_TargetResolution ==
    LET self == lastTargets.self
        T == lastTargets.targets
        others == {n \in NodeNames : NODES[n] # self}
    IN T # <<>> =>
         IF self # 0 /\ \E n \in NodeNames : NODES[n] = self
         THEN /\ \A k \in 1..Len(T) : T[k].node_id # self
              /\ {T[k].name : k \in 1..Len(T)} = others
              /\ Len(T) = Cardinality(others)
              /\ \A j, k \in 1..Len(T) : j < k => OrderOf(T[j].name) < OrderOf(T[k].name)
              /\ \A k \in 1..Len(T) : T[k].node_id = NODES[T[k].name]
         ELSE T = <<[name |-> SELECTED_NODE_NAME, node_id |-> TARGET_NODE_INT]>>

\* C10 witness: the device is node A and the batch went to B and C, in that
\* order
C10_Witness ==
    /\ lastTargets.self = NODES["A"]
    /\ Len(lastTargets.targets) = 2
    /\ lastTargets.targets[1].name = "B"
    /\ lastTargets.targets[2].name = "C"
    /\ {c.to : c \in sent} = {"B", "C"}

\* C11: the attempts made by the loop's reconnect check are at least
\* USB_RECONNECT_INTERVAL apart, so checks closer together than that make at
\* most one attempt.
C11_AttemptsSpaced ==
    reconnects.n >= 2 => reconnects.at - reconnects.prev >= USB_RECONNECT_INTERVAL

\* C11 witness: the link is still down after two attempts exactly
\* USB_RECONNECT_INTERVAL apart, with passes of the loop in between
C11_Witness ==
    /\ reconnects.n >= 2
    /\ reconnects.at - reconnects.prev = USB_RECONNECT_INTERVAL
    /\ USB_RECONNECT_INTERVAL > LoopSleep
    /\ ~meshtastic_connected

\* C14: a confirmation is sent without wantAck and registers nothing: the
\* step that sends it leaves the pending table alone and starts no timer, and
\* every timer is for a tracked message, which a confirmation never is.
C14_NoAckOfAck ==
    /\ [][ Len(timers') < Len(timers)
           => /\ pending' = pending
              /\ Len(timers') = Len(timers) - 1
              /\ \A c \in sent' : c.kind = "conf" /\ ~c.wantAck /\ c.id = 0 ]_vars
    /\ [](\A k \in 1..Len(timers) : timers[k].id \in DOMAIN pending)
    /\ [](\A c \in sent : c.kind = "conf" => ~c.wantAck /\ c.id \notin DOMAIN pending)

\* C14 witness: the confirmation for an acknowledged message of the loop has
\* gone out, and no timer is left
C14_Witness ==
    /\ timers = <<>>
    /\ \E c \in sent :
         /\ c.kind = "conf" /\ ~c.wantAck
         /\ c.for \in BatchIdSet
         /\ GetStatus(pending, c.for) = "ack"

\* C15: with want_ack off every packet goes out without wantAck, nothing is
\* registered in the tracker, the loop waits for no acknowledgment, and no
\* retry is armed or sent.
C15_AckModeOff ==
    ~WANT_ACK =>
        /\ DOMAIN pending = {}
        /\ \A c \in sent : ~c.wantAck /\ c.kind = "data" /\ ~c.retry
        /\ ~Awaiting
        /\ pending_retry_time = 0
        /\ pending_message = <<>>
        /\ pending_recipients = <<>>
        /\ batches <= 1
        /\ timers = <<>>

\* C15 witness: with want_ack off a batch went to two peers and the pass
\* ended in the same second
C15_Witness ==
    /\ ~WANT_ACK
    /\ pc = "top"
    /\ Cardinality(sent) = 2
    /\ \A c \in sent : c.kind = "data" /\ c.at = now /\ ~c.wantAck

\* C16: once a sendData call of a send has raised because the link is down,
\* the station is marked disconnected.
C16_SendFailureDisconnects ==
    lastTargets.raised > 0 => ~meshtastic_connected

\* the step in which the loop sends the message of this pass
NaturalSendStep ==
    /\ pc = "reading"
    /\ sent' # sent
    /\ \E c \in sent' : c.kind = "data" /\ ~c.retry /\ c.at = now

\* C18: the loop sends the batch of a pass only when no retry is armed.
C18_NoSendWhileRetryArmed ==
    [][ NaturalSendStep => pending_retry_time = 0 ]_vars

\* the step that ends a pass of the loop
PassEndStep ==
    /\ pc \in {"reading", "wait"}
    /\ pc' = "top"

\* C19: every pass of the loop sweeps the pending table: an entry that was
\* older than the sweep's timeout when the pass began is gone when the pass
\* ends.
C19_SweptEveryPass ==
    [][ PassEndStep
        => \A i \in DOMAIN pending' :
               current_time - pending'[i].timestamp <= CleanupTimeout ]_vars

\* C20: a pass that finds the station disconnected with the reconnect
\* interval elapsed makes a reconnection attempt, with or without a sensor
\* reading.
C20_ReconnectWithoutReading ==
    [][ (pc = "reading" /\ pc' # "reading" /\ ~meshtastic_connected
         /\ ReconnectDue(now, last_reconnect_attempt))
        => reconnects'.n = reconnects.n + 1 ]_vars

\* the step in which the retry gate resends the pending message
RetrySendStep ==
    /\ pc = "top"
    /\ sent' # sent
    /\ \E c \in sent' : c.kind = "data" /\ c.retry /\ c.at = now

\* C21: the retry time is set only when a classification ends, to
\* ACK_RETRY_TIMEOUT after that moment, and the resend is not made before it.
C21_RetryDelayFromClassification ==
    [][ /\ pending_retry_time' \notin {0, pending_retry_time}
           => /\ NaturalClassifyStep \/ RetryClassifyStep
              /\ pending_retry_time' = now + ACK_RETRY_TIMEOUT
        /\ RetrySendStep
           => pending_retry_time # 0 /\ now >= pending_retry_time ]_vars

\* a resend has just gone out, no earlier than the wait plus the retry delay
\* after the pass that formatted its message
C21_Witness ==
    /\ pc = "retry_brief"
    /\ \E c \in sent :
          /\ c.retry
          /\ c.at = now
          /\ c.at >= c.msg[1].at + AckWindow + ACK_RETRY_TIMEOUT

\* the time at which the packets of the current batch were sent
BatchSentBy(t) ==
    \A k \in 1..Len(current_msg_ids) :
        /\ current_msg_ids[k].id \in DOMAIN pending
        /\ pending[current_msg_ids[k].id].timestamp <= t

\* the step in which send_meshtastic_message builds its acked/nacked/pending
\* lists, half a second after the sends
EarlyClassifyStep ==
    /\ pc \in {"brief", "retry_brief"}
    /\ pc' \in {"wait", "retry_wait"}

\* C22 as stated: no step that sorts the batch's identifiers into
\* acked/nacked/pending is taken before the wait has fully elapsed since the
\* sends.
C22_NoClassificationBeforeWindow ==
    [][ (EarlyClassifyStep \/ NaturalClassifyStep \/ RetryClassifyStep)
        => BatchSentBy(now - AckWindow) ]_vars

\* C22: the classification the loop acts on (retry state, LAST_ACK_STATUS,
\* statistics) is made only when the wait has fully elapsed since the sends
\* of the batch.
C22_LoopClassifiesAfterWindow ==
    [][ (NaturalClassifyStep \/ RetryClassifyStep)
        => BatchSentBy(now - AckWindow) ]_vars

\* a tracked batch has just been classified by the loop, the wait after its
\* sends over
C22_Witness ==
    /\ pc = "top"
    /\ lastClass.kind = "natural"
    /\ lastClass.ids = current_msg_ids
    /\ Len(current_msg_ids) = 2
    /\ \A k \in 1..Len(current_msg_ids) :
          /\ current_msg_ids[k].id \in DOMAIN pending
          /\ pending[current_msg_ids[k].id].timestamp = now - AckWindow

\* C23: the resend registers, for each of its packets, a fresh pending entry
\* under an identifier that was not in the table, and changes no entry that
\* was there.
C23_RetryRegistersNewEntry ==
    [][ (RetrySendStep /\ WANT_ACK)
        => /\ current_msg_ids' # <<>>
           /\ \A i \in DOMAIN pending :
                  i \in DOMAIN pending' /\ pending'[i] = pending[i]
           /\ \A k \in 1..Len(current_msg_ids') :
                  LET m == current_msg_ids'[k]
                  IN /\ m.id \notin DOMAIN pending
                     /\ m.id \in DOMAIN pending'
                     /\ pending'[m.id] = NewEntry(m.name, <<>>, now) ]_vars

\* a resend has just been registered while the entry of the original send to
\* the same peer, with its earlier timestamp, is still in the table
C23_Witness ==
    /\ pc = "retry_brief"
    /\ \E k \in 1..Len(current_msg_ids) :
          LET m == current_msg_ids[k]
          IN /\ m.id \in DOMAIN pending
             /\ pending[m.id].timestamp = now
             /\ \E i \in DOMAIN pending :
                   /\ i # m.id
                   /\ pending[i].node_name = m.name
                   /\ pending[i].timestamp < now

\* the step in which the loop's reconnect check calls
\* check_and_reconnect_meshtastic
ReconnectStep == reconnects'.n = reconnects.n + 1

\* C26: a reconnection attempt that succeeds leaves as local identity the
\* node number of the device now connected (none when the device reports
\* none), an attempt that fails leaves it unresolved, and a send resolves its
\* targets against the identity of that moment.
C26_IdentityAfterReconnect ==
    [][ /\ ReconnectStep
           => IF meshtastic_connected'
              THEN /\ linkUp
                   /\ meshtastic_interface' = "open"
                   /\ my_node_id' \in {deviceNum, 0}
              ELSE /\ my_node_id' = 0
                   /\ meshtastic_interface' = "None"
        /\ (NaturalSendStep \/ RetrySendStep)
           => /\ lastTargets'.self = my_node_id'
              /\ lastTargets'.targets = ResolveTargets(my_node_id') ]_vars

\* after a failed start a reconnection has succeeded with a device that is
\* no configured node, and the send that followed went to the selected node
\* alone
C26_Witness ==
    /\ reconnects.n = 1
    /\ meshtastic_connected
    /\ deviceNum = StrangerNum
    /\ my_node_id = deviceNum
    /\ lastTargets.self = my_node_id
    /\ {c.to : c \in sent} = {SELECTED_NODE_NAME}

\* C27: when the radio becomes connectable and stays so, the station is
\* eventually connected.
C27_EventuallyConnected ==
    <>[]linkUp => <>meshtastic_connected

\* C31: the snr stored with each entry a send registers is the snr the node
\* table holds for the entry's own peer, or None.
C31_SignalOfOwnPeer ==
    [][ (NaturalSendStep \/ RetrySendStep)
        => \A k \in 1..Len(current_msg_ids') :
              LET m == current_msg_ids'[k]
              IN pending'[m.id].snr \in {<<>>, NodeDbSnr(NODES[m.name])} ]_vars

\* C34: after the loop classified a batch once the wait was over,
\* LAST_ACK_STATUS is "A" only if a message of that batch has status ack.
C34_IndicatorOnlyAfterRealAck ==
    [][ NaturalClassifyStep
        => (LAST_ACK_STATUS' = "A" => lastClass'.acked # <<>>) ]_vars

\* the number of places node name n has in the acked, nacked and pending
\* lists of classification c
PlacesOf(c, n) ==
    Cardinality({k \in 1..Len(c.acked) : c.acked[k] = n})
    + Cardinality({k \in 1..Len(c.nacked) : c.nacked[k] = n})
    + Cardinality({k \in 1..Len(c.pending) : c.pending[k] = n})

\* C35: in the lists send_meshtastic_message returns and in the lists the
\* loop builds after the wait (natural send and resend), every node of the
\* batch is in exactly one of acked, nacked and pending.
C35_ClassificationPartitions ==
    [][ /\ EarlyClassifyStep
           => \A k \in 1..Len(current_msg_ids') :
                 PlacesOf(result', current_msg_ids'[k].name) = 1
        /\ (NaturalClassifyStep \/ RetryClassifyStep)
           => \A k \in 1..Len(lastClass'.ids) :
                 PlacesOf(lastClass', lastClass'.ids[k].name) = 1 ]_vars

\* the retry state is cleared: no time, no message, no recipients
RetryCleared ==
    pending_retry_time = 0 /\ pending_message = <<>> /\ pending_recipients = <<>>

\* the retry state is armed: a time, a message and at least one recipient
RetryArmed ==
    pending_retry_time # 0 /\ pending_message # <<>> /\ pending_recipients # <<>>

\* C36: between the steps of the loop the retry state is either armed (time,
\* message and a non-empty recipient list) or cleared; a resend is made only
\* for an armed retry that is due, and the step that makes it clears the
\* retry state, which stays cleared until the resent batch is classified.
C36_RetryStateConsistent ==
    /\ [](RetryArmed \/ RetryCleared)
    /\ [](pc \in {"retry_brief", "retry_wait"} => RetryCleared)
    /\ [][ RetrySendStep
           => /\ RetryArmed
              /\ now >= pending_retry_time
              /\ retry_message' = pending_message
              /\ pending_retry_time' = 0
              /\ pending_message' = <<>>
              /\ pending_recipients' = <<>> ]_vars

\* a retry was armed, came due and was resent: the resend is under way and
\* the retry state is cleared
C36_Witness ==
    /\ pc = "retry_brief"
    /\ RetryCleared
    /\ retry_message # <<>>
    /\ \E c \in sent : c.kind = "data" /\ c.retry /\ c.at = now

\* ------------------------------------------------------------------------
\* Properties of the signal statistics
\* ------------------------------------------------------------------------

\* C12: after every update_snr_stats call the entry of every node has
\* min <= avg <= max.
C12_MeanWithinRange ==
    \A n \in DOMAIN SNR_STATS :
        SNR_STATS[n].min <= SNR_STATS[n].avg /\ SNR_STATS[n].avg <= SNR_STATS[n].max

\* the last k elements of a sequence
LastOf(seq, k) == SubSeq(seq, Len(seq) - k + 1, Len(seq))

\* C13: the recent list of a node never holds more than RecentMax values,
\* and after n recorded values it is the last min(n, RecentMax) of them in
\* the order they came.
C13_RecentWindow ==
    \A n \in DOMAIN SNR_STATS :
        /\ Len(SNR_STATS[n].recent) <= RecentMax
        /\ SNR_STATS[n].recent = LastOf(samples[n], Min2(Len(samples[n]), RecentMax))
        /\ SNR_STATS[n].count = Len(samples[n])

\* C13 witness: more than RecentMax values were recorded for B, the oldest
\* differs from the newest, and the window is full
C13_Witness ==
    /\ "B" \in DOMAIN SNR_STATS
    /\ Len(samples["B"]) > RecentMax + 1
    /\ Len(SNR_STATS["B"].recent) = RecentMax
    /\ samples["B"][1] # samples["B"][2]
    /\ SNR_STATS["B"].recent[1] # SNR_STATS["B"].recent[RecentMax]
    /\ SNR_STATS["B"].recent[RecentMax] = samples["B"][Len(samples["B"])]

\* C28: the first value recorded for a node sets min = max = avg = value and
\* count = 1; each later value v sets min and max to the smaller and larger
\* of the old one and v, avg to (avg * count + v) / (count + 1) in the
\* program's arithmetic, and adds one to count, which is the number of
\* values recorded for the node; a call with None leaves the table as it is.
C28_RecordUpdatesStats ==
    [][ /\ \A n \in NodeNames :
             UpdateSnrStats(SNR_STATS', n, <<>>) = SNR_STATS'
        /\ \A n \in NodeNames :
             IF samples'[n] # samples[n]
             THEN LET v == samples'[n][Len(samples'[n])]
                      new == SNR_STATS'[n]
                  IN /\ Len(samples'[n]) = Len(samples[n]) + 1
                     /\ n \in DOMAIN SNR_STATS'
                     /\ new.count = Len(samples'[n])
                     /\ IF n \notin DOMAIN SNR_STATS
                        THEN new.min = v /\ new.max = v /\ new.avg = v /\ new.count = 1
                        ELSE LET old == SNR_STATS[n]
                             IN /\ new.min = Min2(old.min, v)
                                /\ new.max = Max2(old.max, v)
                                /\ new.avg = FloatDiv(FloatAdd(FloatMul(old.avg, old.count), v),
                                                       old.count + 1)
                                /\ new.count = old.count + 1
             ELSE /\ n \in DOMAIN SNR_STATS' <=> n \in DOMAIN SNR_STATS
                  /\ n \in DOMAIN SNR_STATS => SNR_STATS'[n] = SNR_STATS[n] ]_vars

\* three values were recorded for B, the second larger than the first, while
\* C has its first value only
C28_Witness ==
    /\ "B" \in DOMAIN SNR_STATS
    /\ "C" \in DOMAIN SNR_STATS
    /\ samples["B"] = <<22, 23, 22>>
    /\ SNR_STATS["B"].count = 3
    /\ SNR_STATS["B"].min = 22
    /\ SNR_STATS["B"].max = 23
    /\ SNR_STATS["C"].count = 1
    /\ SNR_STATS["C"].avg = 23

\* how many of the values recorded for a node the statistics file holds
Covered(n) ==
    IF stats_file.kind = "table" /\ n \in DOMAIN stats_file.table
    THEN stats_file.table[n].count
    ELSE 0

\* every node has fewer than SavePeriod recorded values that the file lacks
AllButFewCovered ==
    \A n \in DOMAIN SNR_STATS : SNR_STATS[n].count - Covered(n) <= SavePeriod - 1

C30_WriteFailureKeepsMemory ==
    [][ (saves'.n = saves.n + 1 /\ saves'.outcome # "ok")
        => /\ saves'.how = "logged"
           /\ \E n \in NodeNames :
                 /\ samples'[n] # samples[n]
                 /\ SNR_STATS' = UpdateSnrStats(SNR_STATS, n,
                                                <<samples'[n][Len(samples'[n])]>>)
                 /\ SNR_STATS'[n].count = Len(samples'[n])
                 /\ SNR_STATS'[n].count = (IF n \in DOMAIN SNR_STATS
                                            THEN SNR_STATS[n].count ELSE 0) + 1 ]_vars

\* the first save failed in open(): there is still no file, the call
\* returned, and the table counts every value recorded for B
C30_Witness ==
    /\ saves = [n |-> 1, failed |-> 1, outcome |-> "open_failed", how |-> "logged"]
    /\ stats_file = NoFile
    /\ "B" \in DOMAIN SNR_STATS
    /\ SNR_STATS["B"].count = SavePeriod
    /\ Len(samples["B"]) = SavePeriod

====
